---- MODULE Spec2Model ----
(***************************************************************************)
(* Model of pygds_lib.py: the PYGDS session object, its construction, the  *)
(* run_demo sequence and cleanup, against an environment made of the CUDA  *)
(* driver API, the cuFile driver and the OS file layer.                    *)
(*                                                                         *)
(* Every external call is one step.  An external call that returns a       *)
(* status draws it from Status (0 = success, 1 = any non-zero code); a     *)
(* transfer draws its byte count from Counts.  The environment records the *)
(* real state of each resource, the object fields record what the program  *)
(* believes, and log records every external call in program order.         *)
(*                                                                         *)
(* Environment conventions (the collaborators are not in the repository):  *)
(*  - a cuda-python call never raises, it returns (status, value); a failed*)
(*    allocation yields a value that is false in a boolean test;           *)
(*  - a deregistration that reports failure leaves the registration as it  *)
(*    was; a release of something not held reports failure, no effect;     *)
(*  - os.close of an open descriptor succeeds, of a closed one raises;     *)
(*  - byte counts are the values Python sees after the ctypes conversion;  *)
(*  - memory from cuMemAlloc is not cleared: a byte never written holds an *)
(*    arbitrary value, chosen when the byte is copied to the host.         *)
(***************************************************************************)
EXTENDS Integers, Sequences, FiniteSets, TLC

\* Bounds of the model.
MaxSize == 2
MaxByte == 1
MaxCleanupCalls == 2

Sizes == 1..MaxSize
Bytes == 0..MaxByte
Status == {0, 1}
Counts == -1..(MaxSize + 1)
Bufs == {"w", "r"}

VARIABLES
  pc, exc, ci, caller,
  buffer_size, pattern_byte,
  device, ctx, dptr_w, dptr_r, hptr, cf_handle, fd,
  envCtx, drvOpen, devMem, reg, fdState, hReg, hostState,
  dmem, fileData, hostBuf,
  log

ctl == <<pc, exc, ci, caller>>
obj == <<buffer_size, pattern_byte, device, ctx, dptr_w, dptr_r, hptr, cf_handle, fd>>
env == <<envCtx, drvOpen, devMem, reg, fdState, hReg, hostState>>
data == <<dmem, fileData, hostBuf>>
vars == <<ctl, obj, env, data, log>>

\* ---------------------------------------------------------------- helpers

\* Python truth value of a pointer-like field: None and a null pointer are false.
Truthy(v) == v = "ptr"

Dptr(b) == IF b = "w" THEN dptr_w ELSE dptr_r

Contents(n) == [1..n -> Bytes]

\* A byte of allocated memory that has not been written yet.
Uninit == -1

\* The contents a buffer can show when it is read: a byte never written may
\* hold any value.
Readings(buf) ==
  {c \in Contents(Len(buf)) : \A i \in DOMAIN buf : buf[i] # Uninit => c[i] = buf[i]}

Filled(n, byte) == [i \in 1..n |-> byte]

\* ctypes.c_ubyte(x): the value is reduced to eight bits.
CUbyte(x) == x % 256

Entry(api, arg, res) == [api |-> api, arg |-> arg, res |-> res]

Logged(api, arg, res) == log' = Append(log, Entry(api, arg, res))

Calls(api, arg) == {i \in DOMAIN log : log[i].api = api /\ log[i].arg = arg}

Count(api, arg) == Cardinality(Calls(api, arg))

\* Mutant of CheckFails: the status is never looked at.
CheckFailsNever(st) == FALSE

\* _check_cuda / _check_cufile: a non-zero status raises.
CheckFails(st) == st # 0

\* Mutant of TransferOk: a count larger than the size is accepted too.
TransferOkAtLeast(n) == n >= buffer_size

\* write_buffer / read_buffer: the transfer is accepted when the count is the size.
TransferOk(n) == n = buffer_size

\* Mutant of Mismatch: only the first byte of the host copy is compared.
MismatchFirstOnly(buf, byte) == buf[1] # byte

\* verify_buffer: any(b != pattern_byte for b in host_buf)
Mismatch(buf, byte) == \E i \in DOMAIN buf : buf[i] # byte

\* Mutant of OnException: no finally clause, the exception leaves run_demo at once.
OnExceptionNoFinally == "demo_raised"

\* run_demo's try/finally: an exception raised inside the try goes to the finally.
OnException == "finally"

Raise(e) == pc' = OnException /\ exc' = e

\* ------------------------------------------------------------------- Init

Init ==
  /\ pc = "init_cuInit" /\ exc = "none" /\ ci = 0 /\ caller = "main"
  /\ buffer_size \in Sizes /\ pattern_byte \in Bytes
  /\ device = "None" /\ ctx = "None" /\ dptr_w = "None" /\ dptr_r = "None"
  /\ hptr = "None" /\ cf_handle = "None" /\ fd = "None"
  /\ envCtx = "none" /\ drvOpen = FALSE
  /\ devMem = [b \in Bufs |-> "none"] /\ reg = [b \in Bufs |-> FALSE]
  /\ fdState = "none" /\ hReg = FALSE /\ hostState = "none"
  /\ dmem = [b \in Bufs |-> <<>>] /\ fileData = <<>> /\ hostBuf = <<>>
  /\ log = <<>>

\* ----------------------------------------------------------- construction

\* _initialize_cuda, line 44: cuInit is checked.
CuInit ==
  /\ pc = "init_cuInit"
  /\ \E st \in Status :
       /\ Logged("cuInit", "-", st)
       /\ IF CheckFails(st)
            THEN pc' = "ctor_raised" /\ exc' = "cuInit"
            ELSE pc' = "init_cuDeviceGet" /\ exc' = exc
  /\ UNCHANGED <<ci, caller, obj, env, data>>

\* line 45: the status of cuDeviceGet is dropped.
CuDeviceGet ==
  /\ pc = "init_cuDeviceGet"
  /\ \E st \in Status :
       /\ Logged("cuDeviceGet", "-", st)
       /\ device' = IF st = 0 THEN "dev" ELSE "None"
  /\ pc' = "init_cuCtxCreate"
  /\ UNCHANGED <<exc, ci, caller, buffer_size, pattern_byte, ctx, dptr_w, dptr_r,
                 hptr, cf_handle, fd, env, data>>

\* line 46: the status of cuCtxCreate is dropped.
CuCtxCreate ==
  /\ pc = "init_cuCtxCreate"
  /\ \E st \in (IF device = "dev" THEN Status ELSE {1}) :
       /\ Logged("cuCtxCreate", "-", st)
       /\ ctx' = IF st = 0 THEN "ptr" ELSE "None"
       /\ envCtx' = IF st = 0 THEN "live" ELSE envCtx
  /\ pc' = "init_CDLL"
  /\ UNCHANGED <<exc, ci, caller, buffer_size, pattern_byte, device, dptr_w, dptr_r,
                 hptr, cf_handle, fd, drvOpen, devMem, reg, fdState, hReg, hostState,
                 data>>

\* _initialize_cufile, line 50: loading the library raises OSError when it is missing.
LoadLibrary ==
  /\ pc = "init_CDLL"
  /\ \E ok \in BOOLEAN :
       IF ok THEN pc' = "init_cuFileDriverOpen" /\ exc' = exc
             ELSE pc' = "ctor_raised" /\ exc' = "OSError"
  /\ UNCHANGED <<ci, caller, obj, env, data, log>>

\* line 67: cuFileDriverOpen is checked.
CuFileDriverOpen ==
  /\ pc = "init_cuFileDriverOpen"
  /\ \E st \in Status :
       /\ Logged("cuFileDriverOpen", "-", st)
       /\ drvOpen' = (st = 0)
       /\ IF CheckFails(st)
            THEN pc' = "ctor_raised" /\ exc' = "cuFileDriverOpen"
            ELSE pc' = "init_fields" /\ exc' = exc
  /\ UNCHANGED <<ci, caller, obj, envCtx, devMem, reg, fdState, hReg, hostState, data>>

\* __init__, lines 24-30: every handle field is set to None after the initialisers ran.
InitFields ==
  /\ pc = "init_fields"
  /\ device' = "None" /\ ctx' = "None" /\ dptr_w' = "None" /\ dptr_r' = "None"
  /\ hptr' = "None" /\ cf_handle' = "None" /\ fd' = "None"
  /\ pc' = "constructed"
  /\ UNCHANGED <<exc, ci, caller, buffer_size, pattern_byte, env, data, log>>

\* --------------------------------------------------------------- run_demo

\* run_demo is entered (line 149-151).
RunDemo ==
  /\ pc = "constructed"
  /\ pc' = "alloc_w" /\ caller' = "run_demo"
  /\ UNCHANGED <<exc, ci, obj, env, data, log>>

AllocPc(b) == IF b = "w" THEN "alloc_w" ELSE "alloc_r"
AfterAlloc(b) == IF b = "w" THEN "alloc_r" ELSE "memset"

\* setup_buffers, lines 71-72: cuMemAlloc, status dropped; the memory is not cleared.
CuMemAlloc(b) ==
  /\ pc = AllocPc(b)
  /\ \E st \in (IF envCtx = "live" THEN Status ELSE {1}) :
       /\ Logged("cuMemAlloc", b, st)
       /\ LET val == IF st = 0 THEN "ptr" ELSE "null" IN
            /\ dptr_w' = IF b = "w" THEN val ELSE dptr_w
            /\ dptr_r' = IF b = "r" THEN val ELSE dptr_r
       /\ IF st = 0
            THEN /\ devMem' = [devMem EXCEPT ![b] = "live"]
                 /\ dmem' = [dmem EXCEPT ![b] = Filled(buffer_size, Uninit)]
            ELSE UNCHANGED <<devMem, dmem>>
  /\ pc' = AfterAlloc(b)
  /\ UNCHANGED <<exc, ci, caller, buffer_size, pattern_byte, device, ctx, hptr,
                 cf_handle, fd, envCtx, drvOpen, reg, fdState, hReg, hostState,
                 fileData, hostBuf>>

\* line 73: cuMemsetD8 on the write buffer, status dropped.
CuMemsetD8 ==
  /\ pc = "memset"
  /\ \E st \in (IF devMem["w"] = "live" /\ Truthy(dptr_w) THEN Status ELSE {1}) :
       /\ Logged("cuMemsetD8", "w", st)
       /\ dmem' = IF st = 0
                    THEN [dmem EXCEPT !["w"] = Filled(buffer_size, CUbyte(pattern_byte))]
                    ELSE dmem
  /\ pc' = "register_w"
  /\ UNCHANGED <<exc, ci, caller, obj, env, fileData, hostBuf>>

RegisterPc(b) == IF b = "w" THEN "register_w" ELSE "register_r"
AfterRegister(b) == IF b = "w" THEN "register_r" ELSE "os_open"

\* lines 75-79: one turn of the registration loop.  int(ptr) of a failed
\* allocation raises before the driver is called; the driver status is checked.
CuFileBufRegister(b) ==
  /\ pc = RegisterPc(b)
  /\ IF ~Truthy(Dptr(b))
       THEN Raise("TypeError") /\ UNCHANGED <<reg, log>>
       ELSE \E st \in Status :
              /\ Logged("cuFileBufRegister", b, st)
              /\ reg' = IF st = 0 THEN [reg EXCEPT ![b] = TRUE] ELSE reg
              /\ IF CheckFails(st)
                   THEN Raise("cuFileBufRegister")
                   ELSE pc' = AfterRegister(b) /\ exc' = exc
  /\ UNCHANGED <<ci, caller, obj, envCtx, drvOpen, devMem, fdState, hReg, hostState,
                 data>>

\* open_file, line 83: os.open with O_CREAT | O_RDWR | O_TRUNC | O_DIRECT.
OsOpen ==
  /\ pc = "os_open"
  /\ \E st \in Status :
       /\ Logged("os.open", "-", st)
       /\ IF st = 0
            THEN /\ fd' = "fd" /\ fdState' = "open" /\ fileData' = <<>>
                 /\ pc' = "handle_register" /\ exc' = exc
            ELSE /\ UNCHANGED <<fd, fdState, fileData>>
                 /\ Raise("OSError")
  /\ UNCHANGED <<ci, caller, buffer_size, pattern_byte, device, ctx, dptr_w, dptr_r,
                 hptr, cf_handle, envCtx, drvOpen, devMem, reg, hReg, hostState,
                 dmem, hostBuf>>

\* lines 84-91: cf_handle is a fresh null c_void_p, filled by a successful registration.
CuFileHandleRegister ==
  /\ pc = "handle_register"
  /\ \E st \in Status :
       /\ Logged("cuFileHandleRegister", "-", st)
       /\ cf_handle' = IF st = 0 THEN "ptr" ELSE "null"
       /\ hReg' = (st = 0)
       /\ IF CheckFails(st)
            THEN Raise("cuFileHandleRegister")
            ELSE pc' = "write" /\ exc' = exc
  /\ UNCHANGED <<ci, caller, buffer_size, pattern_byte, device, ctx, dptr_w, dptr_r,
                 hptr, fd, envCtx, drvOpen, devMem, reg, fdState, hostState, data>>

Min(a, b) == IF a < b THEN a ELSE b
Max(a, b) == IF a > b THEN a ELSE b

\* The first n bytes of src laid over dst (a transfer of n bytes at offset 0).
Overlay(dst, src, n) ==
  LET k == Min(Max(n, 0), Len(src)) IN
    [i \in 1..Max(Len(dst), k) |-> IF i <= k THEN src[i] ELSE dst[i]]

\* line 97: the device buffer that cuFileWrite reads from.
WriteSource == "w"

\* Mutant of ReadDest: cuFileRead is given the write buffer.
ReadDestWriteBuffer == "w"

\* line 110: the device buffer that cuFileRead fills.
ReadDest == "r"

\* write_buffer, lines 93-104: cuFileWrite of buffer_size bytes at file offset 0.
CuFileWrite ==
  /\ pc = "write"
  /\ \E n \in Counts :
       /\ Logged("cuFileWrite", WriteSource, n)
       /\ fileData' = Overlay(fileData, dmem[WriteSource], n)
       /\ IF TransferOk(n)
            THEN pc' = "read" /\ exc' = exc
            ELSE Raise("cuFileWrite")
  /\ UNCHANGED <<ci, caller, obj, env, dmem, hostBuf>>

\* read_buffer, lines 106-117: cuFileRead of buffer_size bytes at file offset 0.
CuFileRead ==
  /\ pc = "read"
  /\ \E n \in Counts :
       /\ Logged("cuFileRead", ReadDest, n)
       /\ dmem' = [dmem EXCEPT ![ReadDest] = Overlay(dmem[ReadDest], fileData, n)]
       /\ IF TransferOk(n)
            THEN pc' = "alloc_host" /\ exc' = exc
            ELSE Raise("cuFileRead")
  /\ UNCHANGED <<ci, caller, obj, env, fileData, hostBuf>>

\* verify_buffer, line 121: cuMemAllocHost, status dropped.
CuMemAllocHost ==
  /\ pc = "alloc_host"
  /\ \E st \in Status :
       /\ Logged("cuMemAllocHost", "-", st)
       /\ hptr' = IF st = 0 THEN "ptr" ELSE "null"
       /\ hostState' = IF st = 0 THEN "live" ELSE hostState
  /\ pc' = "memcpy"
  /\ UNCHANGED <<exc, ci, caller, buffer_size, pattern_byte, device, ctx, dptr_w,
                 dptr_r, cf_handle, fd, envCtx, drvOpen, devMem, reg, fdState, hReg,
                 data>>

\* lines 122-125: cuMemcpyDtoH from the read buffer, checked.
CuMemcpyDtoH ==
  /\ pc = "memcpy"
  /\ \E st \in (IF Truthy(hptr) THEN Status ELSE {1}) :
       /\ Logged("cuMemcpyDtoH", "r", st)
       /\ IF st = 0 THEN hostBuf' \in Readings(dmem["r"]) ELSE hostBuf' = hostBuf
       /\ IF CheckFails(st)
            THEN Raise("cuMemcpyDtoH")
            ELSE pc' = "compare" /\ exc' = exc
  /\ UNCHANGED <<ci, caller, obj, env, dmem, fileData>>

\* lines 126-129 and 164-165: the host copy is compared with the pattern byte.
Compare ==
  /\ pc = "compare"
  /\ IF Mismatch(hostBuf, pattern_byte)
       THEN Raise("Verification")
       ELSE pc' = "finally" /\ exc' = exc
  /\ UNCHANGED <<ci, caller, obj, env, data, log>>

\* ---------------------------------------------------------------- cleanup

\* run_demo, lines 167-168: the finally clause calls cleanup.
Finally ==
  /\ pc = "finally"
  /\ Logged("cleanup", "-", 0)
  /\ pc' = "cleanup" /\ ci' = 1
  /\ UNCHANGED <<exc, caller, obj, env, data>>

\* Mutant of CleanupOrder: the descriptor is closed before the handle is deregistered.
CleanupOrderCloseFirst ==
  <<"closeFd", "deregH", "deregW", "freeW", "deregR", "freeR", "freeHost",
    "ctxDestroy", "drvClose">>

\* Mutant of CleanupOrder: the host buffer is freed before the device buffers.
CleanupOrderHostFirst ==
  <<"deregH", "closeFd", "freeHost", "deregW", "freeW", "deregR", "freeR",
    "ctxDestroy", "drvClose">>

\* cleanup, lines 133-147: the release steps in program order.
CleanupOrder ==
  <<"deregH", "closeFd", "deregW", "freeW", "deregR", "freeR", "freeHost",
    "ctxDestroy", "drvClose">>

StepBuf(step) == IF step \in {"deregW", "freeW"} THEN "w" ELSE "r"

\* Mutant of StepGuard: the handle is deregistered whenever a descriptor is held.
StepGuardHandleByFd(step) ==
  CASE step \in {"deregH", "closeFd"} -> fd # "None"
    [] step \in {"deregW", "freeW", "deregR", "freeR"} -> Truthy(Dptr(StepBuf(step)))
    [] step = "freeHost" -> Truthy(hptr)
    [] step = "ctxDestroy" -> Truthy(ctx)
    [] step = "drvClose" -> TRUE

\* The condition under which a step of cleanup is performed (the if of each block).
StepGuard(step) ==
  CASE step = "deregH" -> Truthy(cf_handle)
    [] step = "closeFd" -> fd # "None"
    [] step \in {"deregW", "freeW", "deregR", "freeR"} -> Truthy(Dptr(StepBuf(step)))
    [] step = "freeHost" -> Truthy(hptr)
    [] step = "ctxDestroy" -> Truthy(ctx)
    [] step = "drvClose" -> TRUE

\* lines 133-134: cuFileHandleDeregister, status dropped.
DoDeregH ==
  /\ \E st \in (IF hReg THEN Status ELSE {1}) :
       /\ Logged("cuFileHandleDeregister", "-", st)
       /\ hReg' = IF st = 0 THEN FALSE ELSE hReg
  /\ UNCHANGED <<envCtx, drvOpen, devMem, reg, fdState, hostState>>

\* lines 135-136: os.close; closing a descriptor that is not open raises OSError.
DoCloseFd ==
  /\ Logged("os.close", "-", IF fdState = "open" THEN 0 ELSE 1)
  /\ fdState' = "closed"
  /\ UNCHANGED <<envCtx, drvOpen, devMem, reg, hReg, hostState>>

CloseRaises == fdState # "open"

\* lines 138 and 141: cuFileBufDeregister, status dropped.
DoDeregBuf(b) ==
  /\ \E st \in (IF reg[b] THEN Status ELSE {1}) :
       /\ Logged("cuFileBufDeregister", b, st)
       /\ reg' = IF st = 0 THEN [reg EXCEPT ![b] = FALSE] ELSE reg
  /\ UNCHANGED <<envCtx, drvOpen, devMem, fdState, hReg, hostState>>

\* lines 139 and 142: cuMemFree, status dropped.
DoFreeBuf(b) ==
  /\ Logged("cuMemFree", b, IF devMem[b] = "live" THEN 0 ELSE 1)
  /\ devMem' = IF devMem[b] = "live" THEN [devMem EXCEPT ![b] = "freed"] ELSE devMem
  /\ UNCHANGED <<envCtx, drvOpen, reg, fdState, hReg, hostState>>

\* lines 143-144: cuMemFreeHost, status dropped.
DoFreeHost ==
  /\ Logged("cuMemFreeHost", "-", IF hostState = "live" THEN 0 ELSE 1)
  /\ hostState' = IF hostState = "live" THEN "freed" ELSE hostState
  /\ UNCHANGED <<envCtx, drvOpen, devMem, reg, fdState, hReg>>

\* lines 145-146: cuCtxDestroy, status dropped.
DoCtxDestroy ==
  /\ Logged("cuCtxDestroy", "-", IF envCtx = "live" THEN 0 ELSE 1)
  /\ envCtx' = IF envCtx = "live" THEN "destroyed" ELSE envCtx
  /\ UNCHANGED <<drvOpen, devMem, reg, fdState, hReg, hostState>>

\* line 147: cuFileDriverClose, unconditional, status dropped.
DoDrvClose ==
  /\ Logged("cuFileDriverClose", "-", IF drvOpen THEN 0 ELSE 1)
  /\ drvOpen' = FALSE
  /\ UNCHANGED <<envCtx, devMem, reg, fdState, hReg, hostState>>

DoStep(step) ==
  CASE step = "deregH" -> DoDeregH
    [] step = "closeFd" -> DoCloseFd
    [] step \in {"deregW", "deregR"} -> DoDeregBuf(StepBuf(step))
    [] step \in {"freeW", "freeR"} -> DoFreeBuf(StepBuf(step))
    [] step = "freeHost" -> DoFreeHost
    [] step = "ctxDestroy" -> DoCtxDestroy
    [] step = "drvClose" -> DoDrvClose

\* Where control goes when cleanup ends: run_demo re-raises the pending
\* exception or returns; a direct call returns to its caller.
AfterCleanup(raised) ==
  IF caller = "run_demo"
    THEN (IF raised \/ exc # "none" THEN "demo_raised" ELSE "demo_returned")
    ELSE (IF raised THEN "cleanup_raised" ELSE "cleanup_returned")

\* Mutant of StatusStops: cleanup checks the status of a deregistration.
StatusStopsOnError(st) == st # 0

\* cleanup, lines 134, 138 and 141: the status a deregistration returns is
\* dropped, whatever it is.
StatusStops(st) == FALSE

DeregSteps == {"deregH", "deregW", "deregR"}

\* One step of cleanup: the step at position ci is performed when its guard
\* holds and skipped otherwise; an exception raised by os.close ends cleanup.
CleanupStep ==
  /\ pc = "cleanup"
  /\ LET step == CleanupOrder[ci]
         closeRaises == step = "closeFd" /\ StepGuard(step) /\ CloseRaises
         stops == step \in DeregSteps /\ StepGuard(step)
                    /\ StatusStops(log'[Len(log')].res)
         raises == closeRaises \/ stops IN
       /\ IF StepGuard(step) THEN DoStep(step) ELSE UNCHANGED <<env, log>>
       /\ IF raises
            THEN /\ pc' = AfterCleanup(TRUE) /\ ci' = 0
                 /\ exc' = IF closeRaises THEN "OSError" ELSE "cuFileDeregister"
            ELSE IF ci = Len(CleanupOrder)
                   THEN pc' = AfterCleanup(FALSE) /\ exc' = exc /\ ci' = 0
                   ELSE pc' = pc /\ exc' = exc /\ ci' = ci + 1
  /\ UNCHANGED <<caller, obj, data>>

\* A client of the class calls cleanup() itself, on a constructed object that
\* is not inside a call.
CallCleanup ==
  /\ pc \in {"constructed", "demo_returned", "demo_raised", "cleanup_returned",
             "cleanup_raised"}
  /\ Count("cleanup", "-") < MaxCleanupCalls
  /\ Logged("cleanup", "-", 0)
  /\ pc' = "cleanup" /\ ci' = 1 /\ caller' = "client" /\ exc' = "none"
  /\ UNCHANGED <<obj, env, data>>

\* ------------------------------------------------------------------- Next

\* The script of lines 170-172: gds = PYGDS(); gds.run_demo().
Next ==
  \/ CuInit \/ CuDeviceGet \/ CuCtxCreate \/ LoadLibrary \/ CuFileDriverOpen
  \/ InitFields \/ RunDemo
  \/ \E b \in Bufs : CuMemAlloc(b)
  \/ CuMemsetD8
  \/ \E b \in Bufs : CuFileBufRegister(b)
  \/ OsOpen \/ CuFileHandleRegister \/ CuFileWrite \/ CuFileRead
  \/ CuMemAllocHost \/ CuMemcpyDtoH \/ Compare
  \/ Finally \/ CleanupStep

Spec == Init /\ [][Next]_vars

\* Every call of the program returns: the program keeps stepping until it ends.
FairSpec == Spec /\ WF_vars(Next)

\* The class used as a library: the script, and a client that also calls cleanup().
NextApi == Next \/ CallCleanup

SpecApi == Init /\ [][NextApi]_vars

\* ----------------------------------------------------------------- claims

ReleaseApis ==
  {"cuFileHandleDeregister", "os.close", "cuFileBufDeregister", "cuMemFree",
   "cuCtxDestroy", "cuFileDriverClose"}

\* Two positions of the log that belong to the same execution of cleanup.
SameCleanup(i, j) ==
  /\ i < j
  /\ log[i].api \in ReleaseApis /\ log[j].api \in ReleaseApis
  /\ ~\E k \in DOMAIN log : i < k /\ k < j /\ log[k].api = "cleanup"

\* The class of a release action in the order deregister handle, close
\* descriptor, deregister buffers, free buffers, destroy context, close driver.
Class(e) ==
  CASE e.api = "cuFileHandleDeregister" -> 1
    [] e.api = "os.close" -> 2
    [] e.api = "cuFileBufDeregister" -> 3
    [] e.api = "cuMemFree" -> 4
    [] e.api = "cuCtxDestroy" -> 5
    [] e.api = "cuFileDriverClose" -> 6

\* The same order with the buffers taken one after the other.
Rank(e) ==
  CASE e.api = "cuFileHandleDeregister" -> 1
    [] e.api = "os.close" -> 2
    [] e.api = "cuFileBufDeregister" -> IF e.arg = "w" THEN 3 ELSE 5
    [] e.api = "cuMemFree" -> IF e.arg = "w" THEN 4 ELSE 6
    [] e.api = "cuCtxDestroy" -> 7
    [] e.api = "cuFileDriverClose" -> 8

Ended == pc \in {"demo_returned", "demo_raised"}

\* C1 (as stated): within one execution of cleanup no release action of a
\* later class precedes one of an earlier class, the classes being handle
\* deregistration, descriptor close, buffer deregistrations, buffer frees,
\* context destruction, driver close.
C1_ClassOrder ==
  \A i, j \in DOMAIN log : SameCleanup(i, j) => Class(log[i]) <= Class(log[j])

\* C1 (amended): within one execution of cleanup the release actions occur in
\* the order handle deregistration, descriptor close, write buffer
\* deregistration, write buffer free, read buffer deregistration, read buffer
\* free, context destruction, driver close.
C1_PerBufferOrder ==
  \A i, j \in DOMAIN log : SameCleanup(i, j) => Rank(log[i]) < Rank(log[j])

\* A run that ended after releasing the handle, the descriptor, both buffers
\* and the driver.
C1_Witness ==
  /\ Ended
  /\ Count("cuFileHandleDeregister", "-") = 1 /\ Count("os.close", "-") = 1
  /\ \A b \in Bufs : Count("cuFileBufDeregister", b) = 1 /\ Count("cuMemFree", b) = 1
  /\ Count("cuFileDriverClose", "-") = 1

\* C2: whenever a failure is reported to the caller, by the constructor or by
\* run_demo, cleanup has been run exactly once.
C2_CleanupOnEveryFailure ==
  pc \in {"ctor_raised", "demo_raised"} => Count("cleanup", "-") = 1

CtxCreated == \E i \in DOMAIN log : log[i].api = "cuCtxCreate" /\ log[i].res = 0

\* C3: when run_demo has ended, normally or with an error, the context created
\* at construction has been destroyed, by exactly one cuCtxDestroy.
C3_ContextDestroyedOnce ==
  (Ended /\ CtxCreated) => (envCtx = "destroyed" /\ Count("cuCtxDestroy", "-") = 1)

ReleaseCalls ==
  {<<"cuFileHandleDeregister", "-">>, <<"os.close", "-">>,
   <<"cuFileBufDeregister", "w">>, <<"cuMemFree", "w">>,
   <<"cuFileBufDeregister", "r">>, <<"cuMemFree", "r">>,
   <<"cuMemFreeHost", "-">>, <<"cuCtxDestroy", "-">>, <<"cuFileDriverClose", "-">>}

NothingRegistered == ~hReg /\ \A b \in Bufs : ~reg[b]

\* C4: once cleanup has been invoked twice, no release has been performed a
\* second time on the same resource, and when the second cleanup is over no
\* resource is registered.
C4_CleanupIdempotent ==
  Count("cleanup", "-") >= 2 =>
    /\ \A c \in ReleaseCalls : Count(c[1], c[2]) <= 1
    /\ pc # "cleanup" => NothingRegistered

\* The step being taken appends a call of api to the log.
Calling(api) ==
  /\ Len(log') = Len(log) + 1
  /\ log'[Len(log')].api = api

CallingOn(api, b) == Calling(api) /\ log'[Len(log')].arg = b

\* C5: the driver is closed by the last action of cleanup, and at the moment
\* it is closed no device buffer and no file handle is registered.
C5_DriverCloseLastAndClean ==
  [][Calling("cuFileDriverClose") => (pc' # "cleanup" /\ NothingRegistered)]_vars

\* C6: a buffer is deregistered only while it is registered, and freed only
\* after a deregistration of it.
C6_DeregisterOnlyRegistered ==
  [][\A b \in Bufs :
       /\ CallingOn("cuFileBufDeregister", b) => reg[b]
       /\ CallingOn("cuMemFree", b) => Count("cuFileBufDeregister", b) >= 1]_vars

XferApis == {"cuFileWrite", "cuFileRead"}

\* C7: a transfer whose byte count differs from buffer_size fails with the
\* transfer error and is the last transfer of the run; a transfer whose count
\* is buffer_size does not fail.
C7_TransferSizeMismatch ==
  \A i \in DOMAIN log : log[i].api \in XferApis =>
    /\ log[i].res # buffer_size =>
         /\ exc = log[i].api
         /\ \A j \in DOMAIN log : j > i => log[j].api \notin XferApis
         /\ pc # "demo_returned"
    /\ log[i].res = buffer_size => exc # log[i].api

\* A run that ended in error after the write returned a negative count.
C7_Witness ==
  /\ pc = "demo_raised"
  /\ \E i \in DOMAIN log : log[i].api = "cuFileWrite" /\ log[i].res < 0

ShortWrite ==
  \E i \in DOMAIN log :
    log[i].api = "cuFileWrite" /\ log[i].res >= 0 /\ log[i].res < buffer_size

AllReleased ==
  /\ Count("cuFileHandleDeregister", "-") = 1 /\ Count("os.close", "-") = 1
  /\ \A b \in Bufs : Count("cuFileBufDeregister", b) = 1 /\ Count("cuMemFree", b) = 1
  /\ Count("cuFileDriverClose", "-") = 1
  /\ fdState = "closed" /\ ~drvOpen /\ \A b \in Bufs : devMem[b] = "freed"

\* C8: after a short write the run ends with the transfer error, and by then
\* cleanup has deregistered and freed both buffers, deregistered the handle,
\* closed the descriptor and closed the driver.
C8_ShortWriteStillReleases ==
  ShortWrite ~> (pc = "demo_raised" /\ exc = "cuFileWrite" /\ AllReleased)

\* A run that ended after a short write.
C8_Witness == ShortWrite /\ pc = "demo_raised" /\ AllReleased

AllocFailed == \E i \in DOMAIN log : log[i].api = "cuMemAlloc" /\ log[i].res # 0

\* C9: when a device allocation has failed, no buffer registration, file open
\* or handle registration is ever made, the run does not return normally, and
\* cleanup makes no buffer or file release call.
C9_AllocFailureStopsSetup ==
  AllocFailed =>
    /\ \A i \in DOMAIN log :
         log[i].api \notin {"cuFileBufRegister", "os.open", "cuFileHandleRegister",
                            "cuFileBufDeregister", "cuMemFree",
                            "cuFileHandleDeregister", "os.close"}
    /\ pc # "demo_returned"

\* C10: the driver is opened only when the execution context exists.
C10_DriverOpenNeedsContext ==
  Count("cuFileDriverOpen", "-") > 0 => (CtxCreated /\ envCtx = "live")

DeregApis == {"cuFileHandleDeregister", "cuFileBufDeregister"}

DeregFailed == \E i \in DOMAIN log : log[i].api \in DeregApis /\ log[i].res # 0

\* Every release step of cleanup whose resource the object holds has been made.
EveryHeldReleased ==
  /\ fd # "None" => Count("os.close", "-") = 1
  /\ \A b \in Bufs :
       Truthy(Dptr(b)) => Count("cuFileBufDeregister", b) = 1 /\ Count("cuMemFree", b) = 1
  /\ Truthy(hptr) => Count("cuMemFreeHost", "-") = 1
  /\ Count("cuFileDriverClose", "-") = 1

\* C11: when a deregistration reported failure during teardown, cleanup has
\* still made every other release step: descriptor close, deregistration and
\* free of each buffer, host buffer free and driver close.
C11_DeregFailureDoesNotStop ==
  (Ended /\ DeregFailed) => EveryHeldReleased

\* A run in which the handle deregistration, the first step of cleanup,
\* failed while the descriptor, both buffers and the host buffer were held.
C11_Witness ==
  /\ Ended
  /\ \E i \in DOMAIN log : log[i].api = "cuFileHandleDeregister" /\ log[i].res # 0
  /\ fd # "None" /\ Truthy(dptr_w) /\ Truthy(dptr_r) /\ Truthy(hptr)
  /\ EveryHeldReleased

AllPattern(buf) == buf = Filled(buffer_size, pattern_byte)

\* C12: the comparison of verify_buffer passes, and run_demo goes on without
\* an error, exactly when every byte of the host copy is the pattern byte;
\* otherwise, a single differing byte included, it raises the verification
\* error.
C12_VerifyIffAllPattern ==
  [][pc = "compare" =>
       /\ AllPattern(hostBuf) <=> (pc' = "finally" /\ exc' = "none")
       /\ ~AllPattern(hostBuf) <=> exc' = "Verification"]_vars

\* A run whose host copy differed from the pattern in exactly one byte of
\* several, and failed verification.
C12_Witness ==
  /\ pc = "demo_raised" /\ exc = "Verification"
  /\ Len(hostBuf) >= 2
  /\ Cardinality({i \in DOMAIN hostBuf : hostBuf[i] # pattern_byte}) = 1

Returned(api, res) == \E i \in DOMAIN log : log[i].api = api /\ log[i].res = res

BothFull == Returned("cuFileWrite", buffer_size) /\ Returned("cuFileRead", buffer_size)

\* C13: when the write buffer is filled with the pattern and both transfers
\* reported buffer_size bytes, the read buffer equals the write buffer byte
\* for byte, the host copy made of it is all pattern, and verification does
\* not fail: a run whose device-to-host copy succeeded returns normally.
C13_RoundTrip ==
  (BothFull /\ AllPattern(dmem["w"])) =>
    /\ dmem["r"] = dmem["w"]
    /\ Returned("cuMemcpyDtoH", 0) => AllPattern(hostBuf)
    /\ exc # "Verification"
    /\ (Ended /\ Returned("cuMemcpyDtoH", 0)) => pc = "demo_returned"

\* A run of the largest buffer size that wrote, read back and passed
\* verification.
C13_Witness ==
  /\ pc = "demo_returned" /\ BothFull /\ buffer_size = MaxSize
  /\ AllPattern(dmem["w"]) /\ AllPattern(hostBuf)

VerifyApis == {"cuMemAllocHost", "cuMemcpyDtoH"}

Before(i, api, res) ==
  \E j \in DOMAIN log : j < i /\ log[j].api = api /\ log[j].res = res

\* The order of transfers, verification and teardown in the log.
RunOrder ==
  /\ \A i \in DOMAIN log :
       /\ log[i].api = "cuFileRead" => Before(i, "cuFileWrite", buffer_size)
       /\ log[i].api \in VerifyApis => Before(i, "cuFileRead", buffer_size)
       /\ log[i].api \in XferApis \cup VerifyApis => ~Before(i, "cleanup", 0)
  /\ pc = "compare" => (Returned("cuFileRead", buffer_size) /\ ~Returned("cleanup", 0))

\* C14: a transfer is issued only while the descriptor is open, the handle is
\* registered and both buffers are registered; the read is issued only after
\* the write has completed, verification only after a full read, and neither
\* a transfer nor verification after cleanup has begun.
C14_TransfersOnlyWhenReady ==
  /\ []RunOrder
  /\ [][(Calling("cuFileWrite") \/ Calling("cuFileRead")) =>
          (fdState = "open" /\ hReg /\ \A b \in Bufs : reg[b])]_vars

\* A run that wrote, read, verified and then tore down.
C14_Witness ==
  /\ Ended /\ Count("cleanup", "-") = 1
  /\ Count("cuFileWrite", "w") = 1 /\ Count("cuFileRead", "r") = 1
  /\ Count("cuMemcpyDtoH", "r") = 1

\* Every call of api on arg was made on a resource that was held.
AllSucceeded(api, arg) == \A i \in Calls(api, arg) : log[i].res = 0

\* Cleanup ran to its end: both buffers deregistered once and freed once
\* while allocated, the driver closed once while open.
BuffersAndDriverReleased ==
  /\ \A b \in Bufs :
       /\ Count("cuFileBufDeregister", b) = 1
       /\ Count("cuMemFree", b) = 1 /\ AllSucceeded("cuMemFree", b)
       /\ devMem[b] = "freed"
  /\ Count("cuFileDriverClose", "-") = 1 /\ AllSucceeded("cuFileDriverClose", "-")
  /\ ~drvOpen

\* C15: after a failed os.open, cleanup makes neither the handle
\* deregistration nor the descriptor close; after a failed handle
\* registration it closes the open descriptor once and does not deregister
\* the handle; in both cases it deregisters and frees both buffers and closes
\* the driver, and the run ends with the error.
C15_OpenFileFailureTolerated ==
  Ended =>
    /\ Returned("os.open", 1) =>
         /\ Count("cuFileHandleDeregister", "-") = 0 /\ Count("os.close", "-") = 0
         /\ BuffersAndDriverReleased /\ pc = "demo_raised"
    /\ Returned("cuFileHandleRegister", 1) =>
         /\ Count("cuFileHandleDeregister", "-") = 0
         /\ Count("os.close", "-") = 1 /\ AllSucceeded("os.close", "-")
         /\ fdState = "closed"
         /\ BuffersAndDriverReleased /\ pc = "demo_raised"

\* A run that ended after the handle registration failed on an open descriptor.
C15_Witness ==
  /\ pc = "demo_raised" /\ exc = "cuFileHandleRegister"
  /\ Returned("os.open", 0) /\ Returned("cuFileHandleRegister", 1)
  /\ fdState = "closed"

HostAllocated == Returned("cuMemAllocHost", 0)

\* Position i of the log comes after a call of api on arg.
After(i, api, arg) == \E j \in Calls(api, arg) : j < i

\* C16: when the run has ended, cuMemFreeHost has been called once, on the
\* live host buffer, if cuMemAllocHost had allocated it, and not at all
\* otherwise; the call comes after the free of both device buffers and before
\* the driver close.
C16_HostBufferFreedOnce ==
  /\ Ended =>
       /\ Count("cuMemFreeHost", "-") = (IF HostAllocated THEN 1 ELSE 0)
       /\ AllSucceeded("cuMemFreeHost", "-")
       /\ HostAllocated => hostState = "freed"
       /\ HostAllocated => Count("cuFileDriverClose", "-") = 1
  /\ \A i \in Calls("cuMemFreeHost", "-") :
       /\ \A b \in Bufs : After(i, "cuMemFree", b)
       /\ ~After(i, "cuFileDriverClose", "-")
  /\ \A i \in Calls("cuFileDriverClose", "-") :
       HostAllocated => After(i, "cuMemFreeHost", "-")

\* A run whose comparison failed and whose host buffer was freed.
C16_Witness ==
  /\ pc = "demo_raised" /\ exc = "Verification"
  /\ HostAllocated /\ hostState = "freed" /\ Count("cuMemFreeHost", "-") = 1

ReturnedOn(api, arg, res) == \E i \in Calls(api, arg) : log[i].res = res

\* Every step of the run succeeded and the data read back is the pattern.
AllOk ==
  /\ \A b \in Bufs : ReturnedOn("cuFileBufRegister", b, 0)
  /\ Returned("cuFileHandleRegister", 0)
  /\ BothFull
  /\ Returned("cuMemcpyDtoH", 0)
  /\ AllPattern(hostBuf)

RunOutcome ==
  /\ pc = "demo_returned" => (AllOk /\ exc = "none")
  /\ (Ended /\ ~AllOk) =>
       /\ pc = "demo_raised" /\ exc # "none"
       /\ Count("cleanup", "-") = 1 /\ Count("cuFileDriverClose", "-") = 1

\* C17: run_demo returns normally only when both buffer registrations and
\* the handle registration returned zero, both transfers returned buffer_size,
\* the device-to-host copy succeeded and the host copy is all pattern; a run
\* in which one of these fails ends, and ends by raising after cleanup ran.
C17_NormalReturnOnlyWhenAllOk ==
  /\ []RunOutcome
  /\ (pc = "alloc_w") ~> Ended

\* A run that raised, after cleanup, because the device-to-host copy failed.
C17_Witness ==
  /\ pc = "demo_raised" /\ exc = "cuMemcpyDtoH"
  /\ Returned("cuMemcpyDtoH", 1) /\ BothFull
  /\ Count("cleanup", "-") = 1

====
